---------------------------- MODULE Spec2Model ----------------------------
(***************************************************************************)
(* A model of the DCF valuation script src/streamlit_app.py: the forecast  *)
(* loop, the discounting, the equity value and price per share, the        *)
(* sensitivity grid and the Monte Carlo simulation, as one script run per  *)
(* session, with the process-wide numpy random generator the sessions      *)
(* share.                                                                  *)
(*                                                                         *)
(* Numbers.  The script computes in IEEE doubles.  The model computes in   *)
(* exact rationals extended with the non-finite outcomes a double division *)
(* produces (inf, -inf, nan): a finite number is a sign, a bag of          *)
(* numerator factors and a bag of denominator factors, each factor a       *)
(* natural number of any size held as a sequence of base-1000 limbs (least *)
(* significant first).  Rounding error of double arithmetic is not         *)
(* modelled; division by zero and the propagation of inf/nan are.          *)
(***************************************************************************)
EXTENDS Integers, Sequences, FiniteSets, TLC

(***************************************************************************)
(* Natural numbers of any size.                                            *)
(***************************************************************************)
LimbBase == 10 * 10 * 10

RECURSIVE BNorm(_)
BNorm(a) ==
  IF a = <<>> THEN a
  ELSE IF a[Len(a)] = 0 THEN BNorm(SubSeq(a, 1, Len(a) - 1)) ELSE a

RECURSIVE BFromInt(_)
BFromInt(n) ==
  IF n = 0 THEN <<>> ELSE <<n % LimbBase>> \o BFromInt(n \div LimbBase)

RECURSIVE BAddC(_, _, _)
BAddC(a, b, carry) ==
  IF a = <<>> /\ b = <<>> THEN BFromInt(carry)
  ELSE LET x == (IF a = <<>> THEN 0 ELSE Head(a))
                + (IF b = <<>> THEN 0 ELSE Head(b)) + carry
       IN  <<x % LimbBase>>
             \o BAddC(IF a = <<>> THEN a ELSE Tail(a),
                      IF b = <<>> THEN b ELSE Tail(b), x \div LimbBase)

BAdd(a, b) == BAddC(a, b, 0)

\* a - b for a >= b
RECURSIVE BSubB(_, _, _)
BSubB(a, b, borrow) ==
  IF a = <<>> THEN <<>>
  ELSE LET x == Head(a) - (IF b = <<>> THEN 0 ELSE Head(b)) - borrow
       IN  <<(x + LimbBase) % LimbBase>>
             \o BSubB(Tail(a), IF b = <<>> THEN b ELSE Tail(b),
                      IF x < 0 THEN 1 ELSE 0)

BSub(a, b) == BNorm(BSubB(a, b, 0))

\* -1, 0, 1 as a < b, a = b, a > b (both without leading zero limbs)
RECURSIVE BCmpFrom(_, _, _)
BCmpFrom(a, b, i) ==
  IF i = 0 THEN 0
  ELSE IF a[i] < b[i] THEN -1
  ELSE IF a[i] > b[i] THEN 1
  ELSE BCmpFrom(a, b, i - 1)

BCmp(a, b) ==
  IF Len(a) < Len(b) THEN -1
  ELSE IF Len(a) > Len(b) THEN 1
  ELSE BCmpFrom(a, b, Len(a))

RECURSIVE BMulSmall(_, _, _)
BMulSmall(a, f, carry) ==
  IF a = <<>> THEN BFromInt(carry)
  ELSE LET x == Head(a) * f + carry
       IN  <<x % LimbBase>> \o BMulSmall(Tail(a), f, x \div LimbBase)

RECURSIVE BMulRaw(_, _)
BMulRaw(a, b) ==
  IF a = <<>> \/ b = <<>> THEN <<>>
  ELSE BAdd(BMulSmall(b, Head(a), 0),
            IF Tail(a) = <<>> THEN <<>> ELSE <<0>> \o BMulRaw(Tail(a), b))

BMul(a, b) == BNorm(BMulRaw(a, b))

\* the largest q in lo..hi with d * q <= r (d * lo <= r is given)
RECURSIVE BDigit(_, _, _, _)
BDigit(r, d, lo, hi) ==
  IF lo = hi THEN lo
  ELSE LET mid == (lo + hi + 1) \div 2
       IN  IF BCmp(BNorm(BMulSmall(d, mid, 0)), r) <= 0
           THEN BDigit(r, d, mid, hi)
           ELSE BDigit(r, d, lo, mid - 1)

\* long division of the limbs a[1..i] by d (d > 0): <<quotient, remainder>>
RECURSIVE BDivModFrom(_, _, _)
BDivModFrom(a, d, i) ==
  LET Emit(qs, r, q) ==
        << BNorm(<<q>> \o qs), BSub(r, BNorm(BMulSmall(d, q, 0))) >>
      Digit(qs, r) ==
        Emit(qs, r,
             IF BCmp(r, d) < 0 THEN 0 ELSE BDigit(r, d, 1, LimbBase - 1))
      Step(up) == Digit(up[1], BNorm(<<a[i]>> \o up[2]))
  IN  IF i > Len(a) THEN << <<>>, <<>> >>
      ELSE Step(BDivModFrom(a, d, i + 1))

BDivMod(a, d) == BDivModFrom(a, d, 1)

BOne == <<1>>

(***************************************************************************)
(* Bags of factors: a function from a factor to its multiplicity (> 0).    *)
(***************************************************************************)
NoFactors == [k \in {} |-> 0]

Cnt(bag, k) == IF k \in DOMAIN bag THEN bag[k] ELSE 0

BagSum(a, b) ==
  [k \in DOMAIN a \cup DOMAIN b |-> Cnt(a, k) + Cnt(b, k)]

BagDiff(a, b) ==
  [k \in {j \in DOMAIN a : a[j] > Cnt(b, j)} |-> a[k] - Cnt(b, k)]

BagMax(a, b) ==
  [k \in DOMAIN a \cup DOMAIN b |->
     IF Cnt(a, k) > Cnt(b, k) THEN Cnt(a, k) ELSE Cnt(b, k)]

BagScale(a, n) ==
  IF n = 0 THEN NoFactors ELSE [k \in DOMAIN a |-> a[k] * n]

BagMin(a, b) ==
  [k \in DOMAIN a \cap DOMAIN b |-> IF a[k] < b[k] THEN a[k] ELSE b[k]]

\* how often the prime p divides i (i > 0), and what is left of i
RECURSIVE Multiplicity(_, _)
Multiplicity(i, p) == IF i % p = 0 THEN 1 + Multiplicity(i \div p, p) ELSE 0

RECURSIVE Cofactor(_, _)
Cofactor(i, p) == IF i % p = 0 THEN Cofactor(i \div p, p) ELSE i

SmallPrimes == {2, 3, 5, 7}

\* the factors of a natural number: the small primes of a number of at
\* most two limbs are split off, so that equal factors cancel
BagOfInt(i) ==
  LET Split(rest, keys) ==
        [k \in {<<p>> : p \in keys}
                 \cup (IF rest = 1 THEN {} ELSE {BFromInt(rest)})
           |-> IF Len(k) = 1 /\ k[1] \in keys
               THEN Multiplicity(i, k[1]) ELSE 1]
  IN  Split(Cofactor(Cofactor(Cofactor(Cofactor(i, 2), 3), 5), 7),
            {p \in SmallPrimes : i % p = 0})

BagOf(m) ==
  IF m = BOne THEN NoFactors
  ELSE IF Len(m) = 1 THEN BagOfInt(m[1])
  ELSE IF Len(m) = 2 THEN BagOfInt(m[1] + LimbBase * m[2])
  ELSE [k \in {m} |-> 1]

\* acc * m^n
RECURSIVE BMulPow(_, _, _)
BMulPow(acc, m, n) ==
  IF n = 0 THEN acc
  ELSE BMulPow(IF Len(m) = 1 THEN BMulSmall(acc, m[1], 0) ELSE BMul(acc, m),
               m, n - 1)

\* acc times the product of the factors of the bag
RECURSIVE BagProdFrom(_, _)
BagProdFrom(acc, bag) ==
  IF DOMAIN bag = {} THEN acc
  ELSE LET k == CHOOSE j \in DOMAIN bag : TRUE
       IN  BagProdFrom(BMulPow(acc, k, bag[k]),
                       [j \in DOMAIN bag \ {k} |-> bag[j]])

BagProd(bag) == BagProdFrom(BOne, bag)

(***************************************************************************)
(* Doubles: finite rationals, inf, -inf and nan.                           *)
(***************************************************************************)
Fin(s, n, d) ==
  IF s = 0 THEN [k |-> "fin", s |-> 0, n |-> NoFactors, d |-> NoFactors]
  ELSE [k |-> "fin", s |-> s, n |-> BagDiff(n, d), d |-> BagDiff(d, n)]

Inf(s) == [k |-> "inf", s |-> s, n |-> NoFactors, d |-> NoFactors]
NaN == [k |-> "nan", s |-> 0, n |-> NoFactors, d |-> NoFactors]
Zero == Fin(0, NoFactors, NoFactors)
One == Fin(1, NoFactors, NoFactors)

IsFinite(x) == x.k = "fin"

Sgn(i) == IF i > 0 THEN 1 ELSE IF i < 0 THEN -1 ELSE 0
Abs(i) == IF i < 0 THEN -i ELSE i

FInt(i) == IF i = 0 THEN Zero ELSE Fin(Sgn(i), BagOfInt(Abs(i)), NoFactors)

FNeg(x) == [x EXCEPT !.s = -x.s]

FMul(a, b) ==
  IF a.k = "nan" \/ b.k = "nan" THEN NaN
  ELSE IF a.k = "inf" \/ b.k = "inf"
       THEN (IF a.s * b.s = 0 THEN NaN ELSE Inf(a.s * b.s))
  ELSE Fin(a.s * b.s, BagSum(a.n, b.n), BagSum(a.d, b.d))

\* the divisor zero is +0.0: every zero the script divides by is a difference
\* or a literal, never a negative zero
FDiv(a, b) ==
  IF a.k = "nan" \/ b.k = "nan" THEN NaN
  ELSE IF b.k = "inf" THEN (IF a.k = "inf" THEN NaN ELSE Zero)
  ELSE IF b.s = 0 THEN (IF a.s = 0 THEN NaN ELSE Inf(a.s))
  ELSE IF a.k = "inf" THEN Inf(a.s * b.s)
  ELSE Fin(a.s * b.s, BagSum(a.n, b.d), BagSum(a.d, b.n))

FAdd(a, b) ==
  IF a.k = "nan" \/ b.k = "nan" THEN NaN
  ELSE IF a.k = "inf"
       THEN (IF b.k = "inf" /\ b.s # a.s THEN NaN ELSE a)
  ELSE IF b.k = "inf" THEN b
  ELSE IF a.s = 0 THEN b
  ELSE IF b.s = 0 THEN a
  ELSE LET \* a = a.s * shared * na / common, b likewise
           Sum(shared, common, na, nb, c) ==
             IF a.s = b.s
             THEN Fin(a.s, BagSum(shared, BagOf(BAdd(na, nb))), common)
             ELSE IF c = 0 THEN Zero
             ELSE IF c > 0
             THEN Fin(a.s, BagSum(shared, BagOf(BSub(na, nb))), common)
             ELSE Fin(b.s, BagSum(shared, BagOf(BSub(nb, na))), common)
           Compare(shared, common, na, nb) ==
             Sum(shared, common, na, nb, BCmp(na, nb))
           Over(shared, common) ==
             Compare(shared, common,
                     BagProd(BagSum(BagDiff(a.n, shared),
                                    BagDiff(common, a.d))),
                     BagProd(BagSum(BagDiff(b.n, shared),
                                    BagDiff(common, b.d))))
       IN  Over(BagMin(a.n, b.n), BagMax(a.d, b.d))

FSub(a, b) == FAdd(a, FNeg(b))

\* x ** n for an integer n >= 0
FPow(x, n) ==
  IF n = 0 THEN One
  ELSE IF x.k # "fin" THEN x
  ELSE Fin(IF x.s < 0 /\ n % 2 = 0 THEN 1 ELSE x.s,
           BagScale(x.n, n), BagScale(x.d, n))

\* IEEE comparisons: false whenever a nan is involved
FLess(a, b) ==
  LET Negative(diff) == diff.k # "nan" /\ diff.s < 0
  IN  a.k # "nan" /\ b.k # "nan" /\ Negative(FSub(a, b))

FEq(a, b) ==
  /\ a.k # "nan" /\ b.k # "nan"
  /\ \/ (a.k = "inf" /\ b.k = "inf" /\ a.s = b.s)
     \/ (a.k = "fin" /\ b.k = "fin" /\ FSub(a, b).s = 0)

\* the same double: equal, or both nan
FSame(a, b) == FEq(a, b) \/ (a.k = "nan" /\ b.k = "nan")

\* a rate given in thousandths, e.g. Rate(25) = 0.025
Rate(pm) == FDiv(FInt(pm), FInt(1000))

\* round(x, 2) of a numpy double: to the nearest hundredth, ties to even
Round2(x) ==
  IF x.k # "fin" \/ x.s = 0 THEN x
  ELSE LET \* |x| = num / (200 den): h is 100 |x| to the nearest whole,
           \* qr the quotient and remainder of 100 |x| + 1/2
           Hundredths(h) ==
             IF h = <<>> THEN Zero
             ELSE Fin(x.s, BagOf(h), BagOf(BFromInt(100)))
           Ties(qr) ==
             Hundredths(IF qr[2] = <<>> /\ qr[1] # <<>> /\ qr[1][1] % 2 = 1
                        THEN BSub(qr[1], BOne) ELSE qr[1])
           Halves(num, den) ==
             Ties(BDivMod(BAdd(num, den), BMulSmall(den, 2, 0)))
       IN  Halves(BMulSmall(BagProd(x.n), 200, 0), BagProd(x.d))


(***************************************************************************)
(* Inputs.  Rates are held in thousandths (0.025 is 25); the sliders of    *)
(* lines 49-56 bound them, and the model offers a few values of each.      *)
(***************************************************************************)
Sessions == {1, 2}

\* company.info / financials / balance sheet of the tickers the model offers
\* (get_data): revenue in dollars; sharesOutstanding absent, null or a number
Ticker(hr, tr, sk, sh) ==
  [has_revenue |-> hr, total_revenue |-> tr, shares_key |-> sk,
   shares |-> sh, cash |-> 5000000, debt |-> 20000000]

Tickers ==
  { Ticker(TRUE, 100000000, "value", 1000),
    Ticker(TRUE, 100000000, "null", 0),
    Ticker(TRUE, 100000000, "absent", 0),
    Ticker(TRUE, 0, "value", 0),
    Ticker(FALSE, 0, "absent", 0) }

\* slider values, all within the sliders' ranges
GrowthChoices == {50, 100}
\* <<EBIT margin, CapEx>>: the defaults, and a pair with negative cash flows
ProfileChoices == {<<250, 60>>, <<50, 200>>}
DiscountChoices == {50, 80}
TerminalChoices == {25, 50}

Assumptions(g, m, c, d, t) ==
  [growth_rate |-> g, ebit_margin |-> m, tax_rate |-> 210, capex_pct |-> c,
   dep_pct |-> 50, nwc_pct |-> 20, discount_rate |-> d, terminal_growth |-> t]

AllAssumptions ==
  { Assumptions(g, p[1], p[2], d, t) :
      g \in GrowthChoices, p \in ProfileChoices,
      d \in DiscountChoices, t \in TerminalChoices }

\* the fields in which two assumption sets differ
Changed(a, b) == {f \in DOMAIN a : a[f] # b[f]}

years == <<2024, 2025, 2026, 2027, 2028>>

\* np.arange(0.07, 0.105, 0.005) and np.arange(0.01, 0.045, 0.005)
discounts == <<70, 75, 80, 85, 90, 95, 100>>
\* a growth axis that would reach the discount axis:
\* np.arange(0.01, 0.075, 0.005)
growthsPastDiscounts ==
  <<10, 15, 20, 25, 30, 35, 40, 45, 50, 55, 60, 65, 70>>
growths == <<10, 15, 20, 25, 30, 35, 40>>

\* num_simulations (1000 in the script)
NumSimulations == 2

Unset == [k |-> "unset", s |-> 0, n |-> NoFactors, d |-> NoFactors]

VARIABLES
  pc,              \* where each session's script run stands
  info,            \* the fetched ticker data of the session
  assume,          \* the sidebar assumptions of the run
  last_revenue,
  fcf_data,        \* the rows appended by the forecast loop
  projections,     \* the rows with their discount columns
  tv, tv_disc, enterprise_value,
  shares, equity_value, price_target,
  sensitivity,     \* the cells of the grid set so far
  growth_samples, margin_samples, ev_results,
  error,           \* what st.error reported: "", "KeyError" or "Exception"
  prev,            \* the session's previous run: assumptions and results
  rng              \* the state of numpy's process-wide generator

vars ==
  <<pc, info, assume, last_revenue, fcf_data, projections, tv, tv_disc,
    enterprise_value, shares, equity_value, price_target, sensitivity,
    growth_samples, margin_samples, ev_results, error, prev, rng>>

runvars ==
  <<last_revenue, fcf_data, projections, tv, tv_disc, enterprise_value,
    shares, equity_value, price_target, sensitivity, growth_samples,
    margin_samples, ev_results, error>>

NoShares == [none |-> TRUE, v |-> 0]
NoCells == [c \in {} |-> Unset]
NoRun == [ran |-> FALSE, assume |-> Assumptions(0, 0, 0, 0, 0),
          revenue |-> <<>>, growth_samples |-> <<>>,
          margin_samples |-> <<>>, ev_results |-> <<>>]

(***************************************************************************)
(* The forecast of lines 62-80.                                            *)
(***************************************************************************)
\* the exponent counted from 0 instead of 1
RevenueAtFromZero(base, growth, i) ==
  FMul(base, FPow(FAdd(One, Rate(growth)), i))

\* the growth rate taken off instead of added
RevenueAtShrinking(base, growth, i) ==
  FMul(base, FPow(FSub(One, Rate(growth)), i + 1))

\* revenue = last_revenue * ((1 + growth_rate) ** (i + 1)), i from 0
RevenueAt(base, growth, i) ==
  FMul(base, FPow(FAdd(One, Rate(growth)), i + 1))

\* one pass of the loop body, lines 63-80
ForecastRow(base, a, i) ==
  LET Row(revenue, ebit, nopat, depreciation, capex, nwc_change) ==
        [Year |-> years[i + 1], Revenue |-> revenue, EBIT |-> ebit,
         NOPAT |-> nopat, Depreciation |-> depreciation, CapEx |-> capex,
         dNWC |-> nwc_change,
         FCF |-> FSub(FSub(FAdd(nopat, depreciation), capex), nwc_change)]
      AfterTax(revenue, ebit, tax) ==
        Row(revenue, ebit, FSub(ebit, tax), FMul(revenue, Rate(a.dep_pct)),
            FMul(revenue, Rate(a.capex_pct)), FMul(revenue, Rate(a.nwc_pct)))
      Taxed(revenue, ebit) ==
        AfterTax(revenue, ebit, FMul(ebit, Rate(a.tax_rate)))
      Earning(revenue) == Taxed(revenue, FMul(revenue, Rate(a.ebit_margin)))
  IN  Earning(RevenueAt(base, a.growth_rate, i))

(***************************************************************************)
(* The discounting of lines 83-89.                                         *)
(***************************************************************************)
\* 1 / (1 + discount_rate) ** (i + 1), i from 0
DiscountFactor(rate, i) == FDiv(One, FPow(FAdd(One, Rate(rate)), i + 1))

WithDiscount(rows, rate) ==
  [i \in 1..Len(rows) |->
     [Year |-> rows[i].Year, Revenue |-> rows[i].Revenue,
      EBIT |-> rows[i].EBIT, NOPAT |-> rows[i].NOPAT,
      Depreciation |-> rows[i].Depreciation, CapEx |-> rows[i].CapEx,
      dNWC |-> rows[i].dNWC, FCF |-> rows[i].FCF,
      DiscountFactor |-> DiscountFactor(rate, i - 1),
      DiscountedFCF |-> FMul(rows[i].FCF, DiscountFactor(rate, i - 1))]]

RECURSIVE FSum(_)
FSum(xs) == IF xs = <<>> THEN Zero ELSE FAdd(Head(xs), FSum(Tail(xs)))

\* the denominator with the two rates exchanged
TerminalValueSwapped(fcf, d, g) ==
  FDiv(FMul(fcf, FAdd(One, Rate(g))), FSub(Rate(g), Rate(d)))

\* fcf * (1 + g) / (d - g): the Gordon growth terminal value
TerminalValue(fcf, d, g) ==
  FDiv(FMul(fcf, FAdd(One, Rate(g))), FSub(Rate(d), Rate(g)))

\* tv / ((1 + d) ** len(years))
DiscountedTerminal(t, d, n) == FDiv(t, FPow(FAdd(One, Rate(d)), n))

\* lines 82-89 for the rows of the forecast, the discount rate d and the
\* terminal growth g
Valuation(rows, d, g) ==
  LET Value(proj, t, td) ==
        [projections |-> proj, tv |-> t, tv_disc |-> td,
         enterprise_value |->
           FAdd(FSum([i \in 1..Len(proj) |-> proj[i].DiscountedFCF]), td)]
      Terminal(proj, t) == Value(proj, t, DiscountedTerminal(t, d, Len(years)))
      Discounting(proj) ==
        Terminal(proj, TerminalValue(proj[Len(proj)].FCF, d, g))
  IN  Discounting(WithDiscount(rows, d))

\* the whole forecast loop
Project(base, a) == [i \in 1..Len(years) |-> ForecastRow(base, a, i - 1)]

(***************************************************************************)
(* The sensitivity grid of lines 120-131.                                  *)
(***************************************************************************)
\* the cell from the cash flows as discounted at the baseline rate, not
\* discounted again at d
SensitivityCellBaselineDiscount(proj, d, g) ==
  LET Cell(tvc, tvd, fcf_disc) ==
        [tv |-> tvc, tv_disc |-> tvd,
         cell |-> Round2(FDiv(FAdd(fcf_disc, tvd), FInt(1000)))]
      Discounting(tvc) ==
        Cell(tvc, DiscountedTerminal(tvc, d, Len(years)),
             FSum([i \in 1..Len(years) |-> proj[i].DiscountedFCF]))
  IN  Discounting(TerminalValue(proj[Len(proj)].FCF, d, g))

\* one pass of the loop body for the grid point (d, g)
SensitivityCell(proj, d, g) ==
  LET Cell(tvc, tvd, fcf_disc) ==
        [tv |-> tvc, tv_disc |-> tvd,
         cell |-> Round2(FDiv(FAdd(fcf_disc, tvd), FInt(1000)))]
      Discounting(tvc) ==
        Cell(tvc, DiscountedTerminal(tvc, d, Len(years)),
             FSum([i \in 1..Len(years) |->
                     FMul(proj[i].FCF, DiscountFactor(d, i - 1))]))
  IN  Discounting(TerminalValue(proj[Len(proj)].FCF, d, g))

(***************************************************************************)
(* numpy's process-wide generator, lines 138-141.  After a seed the        *)
(* generator yields a fixed stream; a draw of n values takes the next n    *)
(* of the stream.  StdNormal stands for the stream of standard normal      *)
(* values of a seed, in whole standard deviations.                         *)
(***************************************************************************)
StdNormal(seed, pos) == ((seed + 3 * pos * (pos + 3)) % 5) - 2

\* a seed call that would leave the position in the stream as it is
SeededKeepsPosition(cur, seed) == [seed |-> seed, pos |-> cur.pos]

\* np.random.seed(seed) on the generator in state cur
Seeded(cur, seed) == [seed |-> seed, pos |-> 0]

\* np.random.normal(mean, sd, n) in state r: the samples, in thousandths
Normal(r, mean, sd, n) ==
  [j \in 1..n |-> mean + sd * StdNormal(r.seed, r.pos + j - 1)]

Advance(r, n) == [r EXCEPT !.pos = @ + n]

(***************************************************************************)
(* One Monte Carlo trial, lines 145-155.                                   *)
(***************************************************************************)
\* last_revenue * ((1 + g) ** (i + 1)), i from 0
TrialRevenue(base, g, i) == FMul(base, FPow(FAdd(One, Rate(g)), i + 1))

\* the list with the tax rate in place of 1 - tax_rate
TempFcfTaxOnMargin(base, g, m, a) ==
  [j \in 1..5 |->
     FSub(FSub(FAdd(FMul(FMul(TrialRevenue(base, g, j - 1), Rate(m)),
                         Rate(a.tax_rate)),
                    FMul(TrialRevenue(base, g, j - 1), Rate(a.dep_pct))),
               FMul(TrialRevenue(base, g, j - 1), Rate(a.capex_pct))),
          FMul(TrialRevenue(base, g, j - 1), Rate(a.nwc_pct)))]

\* the list of lines 145-151, for i in range(5)
TempFcf(base, g, m, a) ==
  [j \in 1..5 |->
     FSub(FSub(FAdd(FMul(FMul(TrialRevenue(base, g, j - 1), Rate(m)),
                         FSub(One, Rate(a.tax_rate))),
                    FMul(TrialRevenue(base, g, j - 1), Rate(a.dep_pct))),
               FMul(TrialRevenue(base, g, j - 1), Rate(a.capex_pct))),
          FMul(TrialRevenue(base, g, j - 1), Rate(a.nwc_pct)))]

TrialEV(temp_fcf, a) ==
  LET disc_fcf == FSum([i \in 1..Len(temp_fcf) |->
                          FDiv(temp_fcf[i],
                               FPow(FAdd(One, Rate(a.discount_rate)), i))])
      tv_sim == FDiv(FMul(temp_fcf[Len(temp_fcf)],
                          FAdd(One, Rate(a.terminal_growth))),
                     FSub(Rate(a.discount_rate), Rate(a.terminal_growth)))
      tv_disc_sim == FDiv(tv_sim, FPow(FAdd(One, Rate(a.discount_rate)), 5))
  IN  FAdd(disc_fcf, tv_disc_sim)

(***************************************************************************)
(* The script, one run per session (lines 21-185).                         *)
(***************************************************************************)
Blank(s) ==
  /\ fcf_data' = [fcf_data EXCEPT ![s] = <<>>]
  /\ projections' = [projections EXCEPT ![s] = <<>>]
  /\ tv' = [tv EXCEPT ![s] = Unset]
  /\ tv_disc' = [tv_disc EXCEPT ![s] = Unset]
  /\ enterprise_value' = [enterprise_value EXCEPT ![s] = Unset]
  /\ shares' = [shares EXCEPT ![s] = NoShares]
  /\ equity_value' = [equity_value EXCEPT ![s] = Unset]
  /\ price_target' = [price_target EXCEPT ![s] = Unset]
  /\ sensitivity' = [sensitivity EXCEPT ![s] = NoCells]
  /\ growth_samples' = [growth_samples EXCEPT ![s] = <<>>]
  /\ margin_samples' = [margin_samples EXCEPT ![s] = <<>>]
  /\ ev_results' = [ev_results EXCEPT ![s] = <<>>]

\* lines 24-56: fetch the ticker's data, take the latest revenue in millions
\* (a missing 'Total Revenue' column is the KeyError of line 182), read the
\* sliders
Start(s, tickers, menu) ==
  /\ pc[s] = "start"
  /\ \E t \in tickers, a \in menu :
       /\ info' = [info EXCEPT ![s] = t]
       /\ IF t.has_revenue
          THEN /\ last_revenue' =
                    [last_revenue EXCEPT
                       ![s] = FDiv(FInt(t.total_revenue), FInt(1000000))]
               /\ assume' = [assume EXCEPT ![s] = a]
               /\ pc' = [pc EXCEPT ![s] = "forecast"]
               /\ error' = error
          ELSE /\ pc' = [pc EXCEPT ![s] = "error"]
               /\ error' = [error EXCEPT ![s] = "KeyError"]
               /\ UNCHANGED <<last_revenue, assume>>
  /\ UNCHANGED <<fcf_data, projections, tv, tv_disc, enterprise_value, shares,
                 equity_value, price_target, sensitivity, growth_samples,
                 margin_samples, ev_results, prev, rng>>

\* lines 62-80: one pass of the forecast loop
ForecastYear(s) ==
  /\ pc[s] = "forecast"
  /\ LET i == Len(fcf_data[s])
     IN  /\ fcf_data' =
              [fcf_data EXCEPT
                 ![s] = Append(@, ForecastRow(last_revenue[s], assume[s], i))]
         /\ pc' = [pc EXCEPT
                     ![s] = IF i + 1 = Len(years) THEN "discount" ELSE @]
  /\ UNCHANGED <<info, assume, last_revenue, projections, tv, tv_disc,
                 enterprise_value, shares, equity_value, price_target,
                 sensitivity, growth_samples, margin_samples, ev_results,
                 error, prev, rng>>

\* lines 82-89
Discount(s) ==
  /\ pc[s] = "discount"
  /\ LET Assign(v) ==
           /\ projections' = [projections EXCEPT ![s] = v.projections]
           /\ tv' = [tv EXCEPT ![s] = v.tv]
           /\ tv_disc' = [tv_disc EXCEPT ![s] = v.tv_disc]
           /\ enterprise_value' =
                [enterprise_value EXCEPT ![s] = v.enterprise_value]
     IN  Assign(Valuation(fcf_data[s], assume[s].discount_rate,
                          assume[s].terminal_growth))
  /\ pc' = [pc EXCEPT ![s] = "equity"]
  /\ UNCHANGED <<info, assume, last_revenue, fcf_data, shares, equity_value,
                 price_target, sensitivity, growth_samples, margin_samples,
                 ev_results, error, prev, rng>>

\* info.get('sharesOutstanding', 0): 0 when absent, None when null
SharesOf(t) ==
  IF t.shares_key = "absent" THEN [none |-> FALSE, v |-> 0]
  ELSE IF t.shares_key = "null" THEN [none |-> TRUE, v |-> 0]
  ELSE [none |-> FALSE, v |-> t.shares]

\* the truth value Python gives shares
Truthy(sh) == ~sh.none /\ sh.v # 0

\* equity_value / shares if shares else 0
PriceTarget(equity, sh) ==
  IF Truthy(sh) THEN FDiv(equity, FInt(sh.v)) ELSE Zero

\* lines 109-113
Equity(s) ==
  /\ pc[s] = "equity"
  /\ LET Assign(sh, eq) ==
           /\ shares' = [shares EXCEPT ![s] = sh]
           /\ equity_value' = [equity_value EXCEPT ![s] = eq]
           /\ price_target' =
                [price_target EXCEPT ![s] = PriceTarget(eq, sh)]
     IN  Assign(SharesOf(info[s]),
                FAdd(FSub(FMul(enterprise_value[s], FInt(1000000)),
                          FInt(info[s].debt)), FInt(info[s].cash)))
  /\ pc' = [pc EXCEPT ![s] = "grid"]
  /\ UNCHANGED <<info, assume, last_revenue, fcf_data, projections, tv,
                 tv_disc, enterprise_value, sensitivity, growth_samples,
                 margin_samples, ev_results, error, prev, rng>>

\* lines 125-131: one pass of the inner loop, rows d outermost
SensitivityStep(s) ==
  /\ pc[s] = "grid"
  /\ LET \* the k cells before this one are set
         Assign(k, d, g, r) ==
           /\ tv' = [tv EXCEPT ![s] = r.tv]
           /\ tv_disc' = [tv_disc EXCEPT ![s] = r.tv_disc]
           /\ sensitivity' =
                [sensitivity EXCEPT
                   ![s] = [c \in DOMAIN @ \cup {<<d, g>>} |->
                             IF c = <<d, g>> THEN r.cell ELSE @[c]]]
           /\ pc' = [pc EXCEPT
                       ![s] = IF k + 1 = Len(discounts) * Len(growths)
                              THEN "mc_seed" ELSE @]
         At(k, d, g) ==
           Assign(k, d, g, SensitivityCell(projections[s], d, g))
         Pass(k) == At(k, discounts[(k \div Len(growths)) + 1],
                       growths[(k % Len(growths)) + 1])
     IN  Pass(Cardinality(DOMAIN sensitivity[s]))
  /\ UNCHANGED <<info, assume, last_revenue, fcf_data, projections,
                 enterprise_value, shares, equity_value, price_target,
                 growth_samples, margin_samples, ev_results, error, prev,
                 rng>>

\* line 138
MCSeed(s) ==
  /\ pc[s] = "mc_seed"
  /\ rng' = Seeded(rng, 42)
  /\ pc' = [pc EXCEPT ![s] = "mc_growth"]
  /\ UNCHANGED <<info, assume, prev>>
  /\ UNCHANGED runvars

\* line 140
MCGrowth(s) ==
  /\ pc[s] = "mc_growth"
  /\ growth_samples' =
       [growth_samples EXCEPT
          ![s] = Normal(rng, assume[s].growth_rate, 20, NumSimulations)]
  /\ rng' = Advance(rng, NumSimulations)
  /\ pc' = [pc EXCEPT ![s] = "mc_margin"]
  /\ UNCHANGED <<info, assume, last_revenue, fcf_data, projections, tv,
                 tv_disc, enterprise_value, shares, equity_value,
                 price_target, sensitivity, margin_samples, ev_results,
                 error, prev>>

\* line 141
MCMargin(s) ==
  /\ pc[s] = "mc_margin"
  /\ margin_samples' =
       [margin_samples EXCEPT
          ![s] = Normal(rng, assume[s].ebit_margin, 30, NumSimulations)]
  /\ rng' = Advance(rng, NumSimulations)
  /\ pc' = [pc EXCEPT ![s] = "mc_trials"]
  /\ UNCHANGED <<info, assume, last_revenue, fcf_data, projections, tv,
                 tv_disc, enterprise_value, shares, equity_value,
                 price_target, sensitivity, growth_samples, ev_results,
                 error, prev>>

\* lines 144-155: one pass of the trial loop
MCTrial(s) ==
  /\ pc[s] = "mc_trials"
  /\ LET Trial(t) ==
           /\ ev_results' =
                [ev_results EXCEPT
                   ![s] = Append(@, TrialEV(TempFcf(last_revenue[s],
                                                    growth_samples[s][t],
                                                    margin_samples[s][t],
                                                    assume[s]),
                                            assume[s]))]
           /\ pc' = [pc EXCEPT
                       ![s] = IF t = NumSimulations THEN "plot" ELSE @]
     IN  Trial(Len(ev_results[s]) + 1)
  /\ UNCHANGED <<info, assume, last_revenue, fcf_data, projections, tv,
                 tv_disc, enterprise_value, shares, equity_value,
                 price_target, sensitivity, growth_samples, margin_samples,
                 error, prev, rng>>

\* lines 157-180: ax.hist raises ValueError on a range that is not finite,
\* which the handler of line 184 reports; otherwise the run completes
PlotHist(s) ==
  /\ pc[s] = "plot"
  /\ IF \E t \in 1..Len(ev_results[s]) : ~IsFinite(ev_results[s][t])
     THEN /\ pc' = [pc EXCEPT ![s] = "error"]
          /\ error' = [error EXCEPT ![s] = "Exception"]
     ELSE /\ pc' = [pc EXCEPT ![s] = "done"]
          /\ error' = error
  /\ UNCHANGED <<info, assume, last_revenue, fcf_data, projections, tv,
                 tv_disc, enterprise_value, shares, equity_value,
                 price_target, sensitivity, growth_samples, margin_samples,
                 ev_results, prev, rng>>

\* Streamlit runs the script again from the top when a widget changes or the
\* user asks for a rerun: the ticker's data is cached (line 12).  The model
\* follows the reruns in which the growth slider, or nothing, has changed
Rerun(s, menu) ==
  /\ pc[s] \in {"done", "error"}
  /\ info[s].has_revenue
  /\ \E a \in menu :
       /\ Changed(assume[s], a) \subseteq {"growth_rate"}
       /\ assume' = [assume EXCEPT ![s] = a]
  /\ prev' = [prev EXCEPT
                ![s] = [ran |-> TRUE, assume |-> assume[s],
                        revenue |-> [i \in 1..Len(fcf_data[s]) |->
                                       fcf_data[s][i].Revenue],
                        growth_samples |-> growth_samples[s],
                        margin_samples |-> margin_samples[s],
                        ev_results |-> ev_results[s]]]
  /\ Blank(s)
  /\ error' = [error EXCEPT ![s] = ""]
  /\ pc' = [pc EXCEPT ![s] = "forecast"]
  /\ UNCHANGED <<info, last_revenue, rng>>

\* the generator before any seed call: seeded from the system's entropy
EntropySeeds == {7}

InitWith(active) ==
  /\ pc = [s \in Sessions |-> IF s \in active THEN "start" ELSE "idle"]
  /\ info = [s \in Sessions |->
               [has_revenue |-> FALSE, total_revenue |-> 0,
                shares_key |-> "absent", shares |-> 0, cash |-> 0,
                debt |-> 0]]
  /\ assume = [s \in Sessions |-> Assumptions(0, 0, 0, 0, 0)]
  /\ last_revenue = [s \in Sessions |-> Unset]
  /\ fcf_data = [s \in Sessions |-> <<>>]
  /\ projections = [s \in Sessions |-> <<>>]
  /\ tv = [s \in Sessions |-> Unset]
  /\ tv_disc = [s \in Sessions |-> Unset]
  /\ enterprise_value = [s \in Sessions |-> Unset]
  /\ shares = [s \in Sessions |-> NoShares]
  /\ equity_value = [s \in Sessions |-> Unset]
  /\ price_target = [s \in Sessions |-> Unset]
  /\ sensitivity = [s \in Sessions |-> NoCells]
  /\ growth_samples = [s \in Sessions |-> <<>>]
  /\ margin_samples = [s \in Sessions |-> <<>>]
  /\ ev_results = [s \in Sessions |-> <<>>]
  /\ error = [s \in Sessions |-> ""]
  /\ prev = [s \in Sessions |-> NoRun]
  /\ rng \in {[seed |-> e, pos |-> 0] : e \in EntropySeeds}

\* one session
Init == InitWith({1})

Next ==
  \E s \in Sessions :
    \/ Start(s, Tickers, AllAssumptions)
    \/ ForecastYear(s)
    \/ Discount(s)
    \/ Equity(s)
    \/ SensitivityStep(s)
    \/ MCSeed(s)
    \/ MCGrowth(s)
    \/ MCMargin(s)
    \/ MCTrial(s)
    \/ PlotHist(s)
    \/ Rerun(s, AllAssumptions)

Spec == Init /\ [][Next]_vars

(***************************************************************************)
(* Two sessions of the app in one process: Streamlit runs each session's   *)
(* script in a thread of its own, and np.random is the one generator of    *)
(* the process.  Each call on the generator is atomic (it holds the        *)
(* generator's lock); the calls of the two sessions interleave freely.     *)
(***************************************************************************)
ConcTickers == {Ticker(TRUE, 100000000, "value", 1000)}
ConcAssumptions == {Assumptions(50, 250, 60, 80, 25)}

InitConc == InitWith(Sessions)

NextConc ==
  \E s \in Sessions :
    \/ Start(s, ConcTickers, ConcAssumptions)
    \/ ForecastYear(s)
    \/ Discount(s)
    \/ Equity(s)
    \/ SensitivityStep(s)
    \/ MCSeed(s)
    \/ MCGrowth(s)
    \/ MCMargin(s)
    \/ MCTrial(s)
    \/ PlotHist(s)

SpecConc == InitConc /\ [][NextConc]_vars

(***************************************************************************)
(* Properties.                                                             *)
(***************************************************************************)
\* the discounting of lines 82-89 has run in session s
Discounted(s) == projections[s] # <<>>

\* the forecast loop of session s has completed
Forecast(s) == Len(fcf_data[s]) = Len(years)

\* the grid of session s is complete
GridDone(s) == pc[s] \in {"mc_seed", "mc_growth", "mc_margin", "mc_trials",
                          "plot", "done"}

AllPositive(rows) ==
  \A i \in 1..Len(rows) : IsFinite(rows[i].FCF) /\ rows[i].FCF.s = 1

\* C1: whenever discountRate <= terminalGrowthRate, the single-point
\* valuation ends in an explicit DivergentTerminalValue error: no terminal
\* value, present value of it or enterprise value is produced from the zero
\* or negative denominator, and no equity value or price consumes one.
C1_DivergentTerminalValueRaised ==
  \A s \in Sessions :
    (Discounted(s)
       /\ assume[s].discount_rate <= assume[s].terminal_growth)
      => /\ pc[s] = "error"
         /\ error[s] = "DivergentTerminalValue"
         /\ enterprise_value[s] = Unset
         /\ equity_value[s] = Unset
         /\ price_target[s] = Unset

C4_ForecastRows ==
  \A s \in Sessions :
    /\ pc[s] \notin {"idle", "start", "forecast"} /\ info[s].has_revenue
         => Len(fcf_data[s]) = 5
    /\ \A i \in 1..Len(fcf_data[s]) : fcf_data[s][i].Year = 2023 + i
    /\ pc[s] = "discount" =>
         LET a    == assume[s]
             rows == fcf_data[s]
             up   == FAdd(One, Rate(a.growth_rate))
         IN  /\ \A i \in 1..Len(rows) :
                  /\ FEq(rows[i].Revenue,
                         FMul(IF i = 1 THEN last_revenue[s]
                              ELSE rows[i - 1].Revenue, up))
                  /\ FEq(rows[i].EBIT,
                         FMul(rows[i].Revenue, Rate(a.ebit_margin)))
                  /\ FEq(rows[i].NOPAT,
                         FMul(rows[i].EBIT, FSub(One, Rate(a.tax_rate))))
                  /\ FEq(rows[i].FCF,
                         FSub(FAdd(rows[i].NOPAT,
                                   FMul(rows[i].Revenue, Rate(a.dep_pct))),
                              FAdd(FMul(rows[i].Revenue, Rate(a.capex_pct)),
                                   FMul(rows[i].Revenue, Rate(a.nwc_pct)))))
             /\ (FEq(last_revenue[s], FInt(100))
                   /\ a = Assumptions(50, 250, 60, a.discount_rate,
                                      a.terminal_growth))
                  => /\ FEq(rows[1].Revenue, FInt(105))
                     /\ FEq(rows[1].FCF, FDiv(FInt(175875), FInt(10000)))

C4_Witness ==
  \E s \in Sessions :
    /\ pc[s] = "discount"
    /\ Len(fcf_data[s]) = 5
    /\ assume[s].growth_rate = 50 /\ assume[s].ebit_margin = 250
    /\ FEq(last_revenue[s], FInt(100))
    /\ FEq(fcf_data[s][1].Revenue, FInt(105))

\* C5: with discountRate > terminalGrowthRate, if every projected free cash
\* flow is positive then the enterprise value is finite and strictly
\* positive.
C5_EnterpriseValuePositive ==
  \A s \in Sessions :
    (Discounted(s)
       /\ assume[s].discount_rate > assume[s].terminal_growth
       /\ AllPositive(fcf_data[s]))
      => IsFinite(enterprise_value[s]) /\ enterprise_value[s].s = 1

C5_Witness ==
  \E s \in Sessions :
    /\ pc[s] = "equity"
    /\ assume[s].discount_rate > assume[s].terminal_growth
    /\ AllPositive(fcf_data[s])
    /\ IsFinite(enterprise_value[s]) /\ enterprise_value[s].s = 1

\* the equity value and price of lines 109-113 have been computed
EquityDone(s) == equity_value[s] # Unset

\* C3: when sharesOutstanding is zero or unknown (absent or null), the price
\* per share is computed without a division and reported as unavailable (the
\* script's stand-in is the literal 0), and the rest of the valuation
\* completes without reaching the error state.
C3_PriceUnavailableRunCompletes ==
  \A s \in Sessions :
    (EquityDone(s) /\ ~Truthy(shares[s]))
      => price_target[s] = Zero /\ pc[s] # "error"

OnGrid(d, g) ==
  /\ \E i \in 1..Len(discounts) : discounts[i] = d
  /\ \E j \in 1..Len(growths) : growths[j] = g

\* the enterprise value of the session's forecast at the rates (d, g), in
\* billions
EVInBillions(s, d, g) ==
  FDiv(Valuation(fcf_data[s], d, g).enterprise_value, FInt(1000))

\* C6 as stated: every cell (d, g), d # g, equals the enterprise value of the
\* baseline cash flows re-discounted at d, with the terminal value under
\* (d, g), divided by 1000.
C6_CellIsEVOver1000 ==
  \A s \in Sessions :
    \A c \in DOMAIN sensitivity[s] :
      c[1] # c[2] => FEq(sensitivity[s][c], EVInBillions(s, c[1], c[2]))

\* C6 amended: every cell (d, g), d # g, equals that enterprise value
\* divided by 1000 and rounded to two decimals; the cell at the baseline
\* rates, when they lie on the axes, equals the single-point enterprise value
\* divided by 1000 and rounded to two decimals.
C6_CellIsRoundedEV ==
  \A s \in Sessions :
    pc[s] = "mc_seed" =>
      /\ \A c \in DOMAIN sensitivity[s] :
           c[1] # c[2] =>
             FEq(sensitivity[s][c], Round2(EVInBillions(s, c[1], c[2])))
      /\ OnGrid(assume[s].discount_rate, assume[s].terminal_growth) =>
           FEq(sensitivity[s][<<assume[s].discount_rate,
                                assume[s].terminal_growth>>],
               Round2(FDiv(enterprise_value[s], FInt(1000))))

C6_Witness ==
  \E s \in Sessions :
    /\ pc[s] = "mc_seed"
    /\ OnGrid(assume[s].discount_rate, assume[s].terminal_growth)
    /\ LET cell == sensitivity[s][<<assume[s].discount_rate,
                                    assume[s].terminal_growth>>]
       IN  /\ IsFinite(cell) /\ cell.s = 1
           /\ ~FEq(cell, FDiv(enterprise_value[s], FInt(1000)))

\* the session's simulation has drawn and valued every trial
Simulated(s) == Len(ev_results[s]) = NumSimulations

\* C7: the simulation run twice one after the other with the same seed, trial
\* count and inputs yields the same draws and two result sequences, of the
\* length of the trial count, identical element by element.
C7_SimulationRepeats ==
  \A s \in Sessions :
    (Simulated(s) /\ Len(prev[s].ev_results) = NumSimulations
       /\ prev[s].assume = assume[s])
      => /\ growth_samples[s] = prev[s].growth_samples
         /\ margin_samples[s] = prev[s].margin_samples
         /\ \A t \in 1..NumSimulations :
              ev_results[s][t] = prev[s].ev_results[t]

C7_Witness ==
  \E s \in Sessions :
    /\ pc[s] = "done"
    /\ Simulated(s) /\ Len(prev[s].ev_results) = NumSimulations
    /\ prev[s].assume = assume[s]
    /\ \E t, u \in 1..NumSimulations : ev_results[s][t] # ev_results[s][u]

\* what a session draws when it runs alone: the stream of seed 42 from its
\* start
AloneGrowth(a) ==
  Normal(Seeded(rng, 42), a.growth_rate, 20, NumSimulations)
AloneMargin(a) ==
  Normal(Advance(Seeded(rng, 42), NumSimulations), a.ebit_margin, 30,
         NumSimulations)

\* C8: with two simulations running concurrently, under every interleaving
\* of their seed, growth-draw and margin-draw steps each obtains exactly the
\* draws, and so the enterprise values, it would obtain running alone.
C8_SessionsDrawAsIfAlone ==
  \A s \in Sessions :
    /\ growth_samples[s] # <<>> => growth_samples[s] = AloneGrowth(assume[s])
    /\ margin_samples[s] # <<>> => margin_samples[s] = AloneMargin(assume[s])
    /\ \A t \in 1..Len(ev_results[s]) :
         ev_results[s][t] =
           TrialEV(TempFcf(last_revenue[s], AloneGrowth(assume[s])[t],
                           AloneMargin(assume[s])[t], assume[s]), assume[s])

\* the previous run of the session had the same inputs but a lower growth
\* rate
GrowthRaised(s) ==
  /\ Forecast(s) /\ Len(prev[s].revenue) = Len(years)
  /\ prev[s].assume.growth_rate < assume[s].growth_rate
  /\ Changed(prev[s].assume, assume[s]) = {"growth_rate"}

\* C9 as stated: all else fixed, a higher growth rate gives a strictly
\* higher revenue in every period, for every base revenue.
C9_RevenueIncreasesWithGrowth ==
  \A s \in Sessions :
    GrowthRaised(s) =>
      \A i \in 1..Len(years) :
        FLess(prev[s].revenue[i], fcf_data[s][i].Revenue)

\* C9 amended: ... for every strictly positive base revenue.
C9_RevenueIncreasesWithGrowthPositiveBase ==
  \A s \in Sessions :
    (GrowthRaised(s) /\ FLess(Zero, last_revenue[s])) =>
      \A i \in 1..Len(years) :
        FLess(prev[s].revenue[i], fcf_data[s][i].Revenue)

C9_Witness ==
  \E s \in Sessions :
    /\ GrowthRaised(s) /\ FLess(Zero, last_revenue[s])
    /\ FLess(prev[s].revenue[1], fcf_data[s][1].Revenue)

\* the assumptions with the draws of trial t in place of the baseline growth
\* rate and margin
TrialAssumptions(s, t) ==
  [assume[s] EXCEPT !.growth_rate = growth_samples[s][t],
                    !.ebit_margin = margin_samples[s][t]]

\* C10: for every drawn pair the per-trial cash flows and enterprise value
\* equal those of the forecast and discounting with the growth rate and
\* margin drawn; a draw equal to the baseline gives the single-point
\* enterprise value.
C10_TrialIsForecastAndDiscount ==
  \A s \in Sessions :
    pc[s] = "plot" =>
      \A t \in 1..Len(ev_results[s]) :
        LET a    == TrialAssumptions(s, t)
            rows == Project(last_revenue[s], a)
            temp == TempFcf(last_revenue[s], a.growth_rate, a.ebit_margin,
                            assume[s])
        IN  /\ Len(temp) = Len(rows)
            /\ \A i \in 1..Len(rows) : FEq(temp[i], rows[i].FCF)
            /\ FSame(ev_results[s][t],
                     Valuation(rows, a.discount_rate,
                               a.terminal_growth).enterprise_value)
            /\ a = assume[s] =>
                 FSame(ev_results[s][t], enterprise_value[s])

C10_Witness ==
  \E s \in Sessions :
    /\ pc[s] = "plot"
    /\ \E t \in 1..Len(ev_results[s]) :
         /\ TrialAssumptions(s, t) = assume[s]
         /\ IsFinite(ev_results[s][t]) /\ ev_results[s][t].s = 1
         /\ FEq(ev_results[s][t], enterprise_value[s])
    /\ \E t \in 1..Len(ev_results[s]) : TrialAssumptions(s, t) # assume[s]

=============================================================================
